---- MODULE Spec2Model ----
(***************************************************************************)
(* Model of the data layer of multiservices_mgr (backend/app):             *)
(*   - config.py: Settings.cors_origins and the lru_cache'd get_settings   *)
(*   - models/service.py, models/revenue.py, models/expense.py: the        *)
(*     declared columns (nullability, uniqueness, foreign keys, timestamp  *)
(*     defaults) and relationships, exercised by insert/update/delete      *)
(*     operations of a constraint-enforcing relational store.              *)
(***************************************************************************)
EXTENDS Integers, Sequences, FiniteSets, TLC

VARIABLES
    \* ---- config.py: Settings.cors_origins ----
    allowed_origins,   \* Settings.allowed_origins, a string as a tuple of characters
    cors_result,       \* the list last returned by cors_origins
    cors_pc,           \* "ready" before the property is read, "done" after
    \* ---- config.py: get_settings ----
    env,               \* value of ACCESS_TOKEN_EXPIRE_MINUTES in the environment
    cache,             \* lru_cache entry for the key (): 0 = no entry, else instance id
    objs,              \* Settings instances constructed so far: id -> parsed field
    pc,                \* per caller: "idle", "miss" (inside Settings()), "ret", "raised"
    ret,               \* per caller: instance returned by its last completed call
    began,             \* per caller: result of the first successful call, as known
                       \* when its own call began (0 = none had completed)
    built,             \* per caller: whether its current/last call constructed a Settings
    first,             \* instance returned by the first successful call (0 = none yet)
    \* ---- models: the relational store ----
    services, revenues, expenses, users,   \* tables: id -> row
    clock,                                 \* datetime.utcnow()
    req,                                   \* the last operation requested
    result                                 \* its outcome

cors_vars == <<allowed_origins, cors_result, cors_pc>>
settings_vars == <<env, cache, objs, pc, ret, began, built, first>>
store_vars == <<services, revenues, expenses, users, clock, req, result>>
vars == <<cors_vars, settings_vars, store_vars>>

(***************************************************************************)
(* Bounds                                                                  *)
(***************************************************************************)
MaxLen == 3          \* longest generated allowed_origins string
MaxInstances == 3    \* Settings constructions explored
MaxId == 2           \* largest primary key generated in a table
MaxTotal == 2        \* rows held by services, revenues and expenses together
MaxClock == 1        \* latest reading of the clock

(***************************************************************************)
(* config.py:21-25  Settings.cors_origins                                  *)
(***************************************************************************)
Whitespace == {" ", "\t"}
Chars == {"a", "b", ",", " ", "\t"}

DefaultAllowedOrigins ==
    <<"h", "t", "t", "p", ":", "/", "/", "l", "o", "c", "a", "l", "h", "o", "s", "t",
      ":", "8", "0", "8", "0", ",",
      "h", "t", "t", "p", ":", "/", "/", "l", "o", "c", "a", "l", "h", "o", "s", "t",
      ":", "5", "1", "7", "3">>

\* str.split(","): scan left to right, cutting at every separator
RECURSIVE SplitFrom(_, _, _, _)
SplitFrom(s, i, cur, acc) ==
    IF i > Len(s) THEN Append(acc, cur)
    ELSE IF s[i] = "," THEN SplitFrom(s, i + 1, <<>>, Append(acc, cur))
    ELSE SplitFrom(s, i + 1, Append(cur, s[i]), acc)

split(s) == SplitFrom(s, 1, <<>>, <<>>)

\* str.strip(): drop leading, then trailing, whitespace
RECURSIVE lstrip(_)
lstrip(s) ==
    IF s # <<>> /\ Head(s) \in Whitespace THEN lstrip(Tail(s)) ELSE s

RECURSIVE rstrip(_)
rstrip(s) ==
    IF s # <<>> /\ s[Len(s)] \in Whitespace THEN rstrip(SubSeq(s, 1, Len(s) - 1)) ELSE s

strip(s) == rstrip(lstrip(s))

\* the comprehension without the strip()
cors_origins_nostrip(s) == split(s)

\* the comprehension with empty entries filtered out
cors_origins_skipempty(s) ==
    SelectSeq([i \in 1..Len(split(s)) |-> strip(split(s)[i])], LAMBDA o : o # <<>>)

\* [origin.strip() for origin in self.allowed_origins.split(",")]
cors_origins(s) ==
    [i \in 1..Len(split(s)) |-> strip(split(s)[i])]

RECURSIVE SeqsUpTo(_)
SeqsUpTo(n) ==
    IF n = 0 THEN {<<>>}
    ELSE LET shorter == SeqsUpTo(n - 1)
         IN  shorter \cup {Append(q, c) : q \in {x \in shorter : Len(x) = n - 1}, c \in Chars}

OriginInputs == SeqsUpTo(MaxLen) \cup {DefaultAllowedOrigins}

\* reading settings.cors_origins
ReadCorsOrigins ==
    /\ cors_pc = "ready"
    /\ cors_result' = cors_origins(allowed_origins)
    /\ cors_pc' = "done"
    /\ UNCHANGED <<allowed_origins, settings_vars, store_vars>>

\* a Settings built with another ALLOWED_ORIGINS value
SetAllowedOrigins ==
    /\ cors_pc = "done"
    /\ \E s \in OriginInputs : allowed_origins' = s
    /\ cors_pc' = "ready"
    /\ cors_result' = <<>>
    /\ UNCHANGED <<settings_vars, store_vars>>

(***************************************************************************)
(* config.py:5-35  Settings() and get_settings                             *)
(***************************************************************************)
Callers == {"c1", "c2"}

Digits == {"0", "1", "2", "3", "4", "5", "6", "7", "8", "9"}

DigitVal(c) ==
    CASE c = "0" -> 0 [] c = "1" -> 1 [] c = "2" -> 2 [] c = "3" -> 3 [] c = "4" -> 4
      [] c = "5" -> 5 [] c = "6" -> 6 [] c = "7" -> 7 [] c = "8" -> 8 [] c = "9" -> 9

\* values ACCESS_TOKEN_EXPIRE_MINUTES takes in the environment / .env file
EnvValues ==
    { [set |-> FALSE, val |-> <<>>],
      [set |-> TRUE, val |-> <<"3", "0">>],
      [set |-> TRUE, val |-> <<"6", "0">>],
      [set |-> TRUE, val |-> <<"a", "b", "c">>],
      [set |-> TRUE, val |-> <<>>] }

\* access_token_expire_minutes: int = 30
access_token_expire_minutes == 30

\* validation of an int field from its environment string
IsInt(s) == s # <<>> /\ \A i \in 1..Len(s) : s[i] \in Digits

RECURSIVE ParseInt(_)
ParseInt(s) ==
    IF s = <<>> THEN 0
    ELSE 10 * ParseInt(SubSeq(s, 1, Len(s) - 1)) + DigitVal(s[Len(s)])

\* Settings(): TRUE when construction raises a validation error
SettingsRaises(e) == e.set /\ ~IsInt(e.val)

\* Settings(): the field value of the instance built from environment e
SettingsValue(e) == IF e.set THEN ParseInt(e.val) ELSE access_token_expire_minutes

\* a wrapper that stores nothing (the decorator left out)
cache_store_nothing(c, id) == c

\* lru_cache: after the wrapped call returns, the result is stored under the
\* key unless an entry for the key appeared during the call
cache_store(c, id) == IF c = 0 THEN id ELSE c

InFlight == Cardinality({t \in Callers : pc[t] = "miss"})

\* get_settings(): the cache lookup made on entry
get_settings_lookup(t) ==
    /\ pc[t] # "miss"
    /\ began' = [began EXCEPT ![t] = first]
    /\ built' = [built EXCEPT ![t] = FALSE]
    /\ IF cache # 0
       THEN /\ ret' = [ret EXCEPT ![t] = cache]
            /\ pc' = [pc EXCEPT ![t] = "ret"]
       ELSE /\ Len(objs) + InFlight < MaxInstances
            /\ ret' = [ret EXCEPT ![t] = 0]
            /\ pc' = [pc EXCEPT ![t] = "miss"]
    /\ UNCHANGED <<env, cache, objs, first, cors_vars, store_vars>>

\* get_settings(): on a miss, Settings() is called and its result stored
get_settings_miss(t) ==
    /\ pc[t] = "miss"
    /\ IF SettingsRaises(env)
       THEN /\ pc' = [pc EXCEPT ![t] = "raised"]
            /\ UNCHANGED <<cache, objs, ret, built, first>>
       ELSE LET id == Len(objs) + 1 IN
            /\ objs' = Append(objs, SettingsValue(env))
            /\ cache' = cache_store(cache, id)
            /\ ret' = [ret EXCEPT ![t] = id]
            /\ built' = [built EXCEPT ![t] = TRUE]
            /\ first' = IF first = 0 THEN id ELSE first
            /\ pc' = [pc EXCEPT ![t] = "ret"]
    /\ UNCHANGED <<env, began, cors_vars, store_vars>>

\* the environment changes between calls
SetEnv ==
    /\ \E e \in EnvValues : e # env /\ env' = e
    /\ UNCHANGED <<cache, objs, pc, ret, began, built, first, cors_vars, store_vars>>

(***************************************************************************)
(* models/service.py, models/revenue.py, models/expense.py                 *)
(*                                                                         *)
(* Column declarations.  A column is NOT NULL when mapped_column() says    *)
(* nullable=False, or says nothing and the annotation Mapped[T] is not     *)
(* Optional; primary keys, unique=True and ForeignKey(...) are table       *)
(* constraints.                                                            *)
(***************************************************************************)
NULL == 0              \* None / SQL NULL in an integer or float column
NullStr == "NULL"      \* None / SQL NULL in a string column

Names == {"Transport", "Lodge"}
Categories == {"fixed"}

\* Service.name: Mapped[str] = mapped_column(String(100), unique=True, index=True)
Service_name_unique_off == FALSE        \* the column without unique=True
Service_name_unique == TRUE
Service_name_nullable == FALSE

\* Revenue.service_id: Mapped[int] = mapped_column(ForeignKey("services.id"), index=True)
Revenue_service_id_nullable_on == TRUE  \* the column with nullable=True, as Expense has it
Revenue_service_id_nullable == FALSE
Revenue_service_id_fk == TRUE
\* Revenue.amount: Mapped[float] = mapped_column(Float, nullable=False)
Revenue_amount_nullable_on == TRUE      \* the column with nullable=True
Revenue_amount_nullable == FALSE
\* Revenue.date: Mapped[date] = mapped_column(Date, nullable=False, index=True)
Revenue_date_nullable == FALSE
\* Revenue.created_by: Mapped[int] = mapped_column(ForeignKey("users.id"), nullable=True)
Revenue_created_by_nullable == TRUE
Revenue_created_by_fk == TRUE

\* Expense.service_id: Mapped[int] =
\*     mapped_column(ForeignKey("services.id"), index=True, nullable=True)
Expense_service_id_nullable_off == FALSE  \* the column without nullable=True
Expense_service_id_nullable == TRUE
Expense_service_id_fk_off == FALSE        \* the column without its ForeignKey
Expense_service_id_fk == TRUE
\* Expense.amount: Mapped[float] = mapped_column(Float, nullable=False)
Expense_amount_nullable == FALSE
\* Expense.date: Mapped[date] = mapped_column(Date, nullable=False, index=True)
Expense_date_nullable == FALSE
\* Expense.category: Mapped[str] = mapped_column(String(100), nullable=False)
Expense_category_nullable == FALSE
\* Expense.created_by: Mapped[int] = mapped_column(ForeignKey("users.id"), nullable=True)
Expense_created_by_nullable == TRUE
Expense_created_by_fk == TRUE

Ids(tbl) == DOMAIN tbl

\* a column value satisfies its NOT NULL / FOREIGN KEY declaration
ColOK(v, nullable, fk, targets) ==
    IF v = NULL THEN nullable ELSE (fk => v \in targets)

\* the Service row with primary key skip aside, no other row holds the name
ServiceValid(row, skip, svcs) ==
    /\ (row.name = NullStr => Service_name_nullable)
    /\ (Service_name_unique /\ row.name # NullStr) =>
          \A i \in Ids(svcs) \ {skip} : svcs[i].name # row.name

RevenueValid(row, svcs, usrs) ==
    /\ ColOK(row.service_id, Revenue_service_id_nullable, Revenue_service_id_fk, Ids(svcs))
    /\ (row.amount = NULL => Revenue_amount_nullable)
    /\ (row.date = NULL => Revenue_date_nullable)
    /\ ColOK(row.created_by, Revenue_created_by_nullable, Revenue_created_by_fk, usrs)

ExpenseValid(row, svcs, usrs) ==
    /\ ColOK(row.service_id, Expense_service_id_nullable, Expense_service_id_fk, Ids(svcs))
    /\ (row.amount = NULL => Expense_amount_nullable)
    /\ (row.date = NULL => Expense_date_nullable)
    /\ (row.category = NullStr => Expense_category_nullable)
    /\ ColOK(row.created_by, Expense_created_by_nullable, Expense_created_by_fk, usrs)

\* created_at: default=datetime.utcnow
\* updated_at: default=datetime.utcnow, onupdate=datetime.utcnow
Stamp(row, now) == [row EXCEPT !.created_at = now, !.updated_at = now]

\* onupdate given to created_at as well
RevenueTouch_both(row, now) == [row EXCEPT !.created_at = now, !.updated_at = now]

ServiceTouch(row, now) == [row EXCEPT !.updated_at = now]
RevenueTouch(row, now) == [row EXCEPT !.updated_at = now]
ExpenseTouch(row, now) == [row EXCEPT !.updated_at = now]

\* revenues / expenses: relationship(back_populates="service") with the default
\* cascade: deleting the parent sets the foreign key of its children to NULL
Service_revenues_on_delete(revs, sid, now) ==
    [i \in Ids(revs) |->
        IF revs[i].service_id = sid
        THEN RevenueTouch([revs[i] EXCEPT !.service_id = NULL], now)
        ELSE revs[i]]

Service_expenses_on_delete(exps, sid, now) ==
    [i \in Ids(exps) |->
        IF exps[i].service_id = sid
        THEN ExpenseTouch([exps[i] EXCEPT !.service_id = NULL], now)
        ELSE exps[i]]

(***************************************************************************)
(* The store: insert / update / delete of one row in one transaction.      *)
(* A statement that breaks a declared constraint raises and the            *)
(* transaction is rolled back.                                             *)
(***************************************************************************)
Max(S) == CHOOSE x \in S : \A y \in S : y <= x

\* integer primary key: one more than the largest key in the table
NextId(tbl) == IF Ids(tbl) = {} THEN 1 ELSE Max(Ids(tbl)) + 1

Put(tbl, id, row) == [i \in Ids(tbl) \cup {id} |-> IF i = id THEN row ELSE tbl[i]]
Drop(tbl, id) == [i \in Ids(tbl) \ {id} |-> tbl[i]]

NoReq ==
    [op |-> "none", id |-> NULL, name |-> NullStr, service_id |-> NULL, amount |-> NULL,
     date |-> NULL, category |-> NullStr, created_by |-> NULL]

Request(op, f) == [k \in DOMAIN NoReq |-> IF k = "op" THEN op
                                          ELSE IF k \in DOMAIN f THEN f[k] ELSE NoReq[k]]

Fail(r, how) ==
    /\ req' = r
    /\ result' = how
    /\ UNCHANGED <<services, revenues, expenses, users, clock>>

\* an update that changes no attribute may emit no UPDATE statement at all
\* (unit of work) or emit one (Core statement); only the latter fires onupdate
Written(old, row, touched) == IF row = old THEN {old, touched} ELSE {touched}

NextUser == IF users = {} THEN 1 ELSE Max(users) + 1

\* time passes between two operations
Tick ==
    /\ clock' = clock + 1
    /\ UNCHANGED <<services, revenues, expenses, users, req, result,
                   cors_vars, settings_vars>>

InsertUser ==
    /\ users' = users \cup {NextUser}
    /\ req' = [NoReq EXCEPT !.op = "insert_user"]
    /\ result' = "ok"
    /\ UNCHANGED <<services, revenues, expenses, clock, cors_vars, settings_vars>>

InsertService(name) ==
    LET r == Request("insert_service", [name |-> name])
        row == [name |-> name, created_at |-> NULL, updated_at |-> NULL]
    IN  /\ IF ServiceValid(row, NULL, services)
           THEN /\ services' = Put(services, NextId(services), Stamp(row, clock))
                /\ req' = r
                /\ result' = "ok"
                /\ UNCHANGED <<revenues, expenses, users, clock>>
           ELSE Fail(r, "constraint-violation")
        /\ UNCHANGED <<cors_vars, settings_vars>>

UpdateService(id, name) ==
    LET r == Request("update_service", [id |-> id, name |-> name]) IN
    /\ IF id \notin Ids(services) THEN Fail(r, "not-found")
       ELSE LET row == [services[id] EXCEPT !.name = name] IN
            IF ServiceValid(row, id, services)
            THEN /\ \E new \in Written(services[id], row, ServiceTouch(row, clock)) :
                        services' = Put(services, id, new)
                 /\ req' = r
                 /\ result' = "ok"
                 /\ UNCHANGED <<revenues, expenses, users, clock>>
            ELSE Fail(r, "constraint-violation")
    /\ UNCHANGED <<cors_vars, settings_vars>>

DeleteService(id) ==
    LET r == Request("delete_service", [id |-> id]) IN
    /\ IF id \notin Ids(services) THEN Fail(r, "not-found")
       ELSE LET svcs == Drop(services, id)
                revs == Service_revenues_on_delete(revenues, id, clock)
                exps == Service_expenses_on_delete(expenses, id, clock)
            IN  IF /\ \A i \in Ids(revs) : RevenueValid(revs[i], svcs, users)
                   /\ \A i \in Ids(exps) : ExpenseValid(exps[i], svcs, users)
                THEN /\ services' = svcs
                     /\ revenues' = revs
                     /\ expenses' = exps
                     /\ req' = r
                     /\ result' = "ok"
                     /\ UNCHANGED <<users, clock>>
                ELSE Fail(r, "constraint-violation")
    /\ UNCHANGED <<cors_vars, settings_vars>>

InsertRevenue(service_id, amount, date, created_by) ==
    LET f == [service_id |-> service_id, amount |-> amount, date |-> date,
              created_by |-> created_by]
        r == Request("insert_revenue", f)
        row == [service_id |-> service_id, amount |-> amount, date |-> date,
                created_by |-> created_by, created_at |-> NULL, updated_at |-> NULL]
    IN  /\ IF RevenueValid(row, services, users)
           THEN /\ revenues' = Put(revenues, NextId(revenues), Stamp(row, clock))
                /\ req' = r
                /\ result' = "ok"
                /\ UNCHANGED <<services, expenses, users, clock>>
           ELSE Fail(r, "constraint-violation")
        /\ UNCHANGED <<cors_vars, settings_vars>>

UpdateRevenue(id, service_id, amount) ==
    LET r == Request("update_revenue", [id |-> id, service_id |-> service_id,
                                        amount |-> amount]) IN
    /\ IF id \notin Ids(revenues) THEN Fail(r, "not-found")
       ELSE LET row == [revenues[id] EXCEPT !.service_id = service_id, !.amount = amount] IN
            IF RevenueValid(row, services, users)
            THEN /\ \E new \in Written(revenues[id], row, RevenueTouch(row, clock)) :
                        revenues' = Put(revenues, id, new)
                 /\ req' = r
                 /\ result' = "ok"
                 /\ UNCHANGED <<services, expenses, users, clock>>
            ELSE Fail(r, "constraint-violation")
    /\ UNCHANGED <<cors_vars, settings_vars>>

DeleteRevenue(id) ==
    LET r == Request("delete_revenue", [id |-> id]) IN
    /\ IF id \notin Ids(revenues) THEN Fail(r, "not-found")
       ELSE /\ revenues' = Drop(revenues, id)
            /\ req' = r
            /\ result' = "ok"
            /\ UNCHANGED <<services, expenses, users, clock>>
    /\ UNCHANGED <<cors_vars, settings_vars>>

InsertExpense(service_id, amount, date, category, created_by) ==
    LET f == [service_id |-> service_id, amount |-> amount, date |-> date,
              category |-> category, created_by |-> created_by]
        r == Request("insert_expense", f)
        row == [service_id |-> service_id, amount |-> amount, date |-> date,
                category |-> category, created_by |-> created_by,
                created_at |-> NULL, updated_at |-> NULL]
    IN  /\ IF ExpenseValid(row, services, users)
           THEN /\ expenses' = Put(expenses, NextId(expenses), Stamp(row, clock))
                /\ req' = r
                /\ result' = "ok"
                /\ UNCHANGED <<services, revenues, users, clock>>
           ELSE Fail(r, "constraint-violation")
        /\ UNCHANGED <<cors_vars, settings_vars>>

UpdateExpense(id, service_id, amount) ==
    LET r == Request("update_expense", [id |-> id, service_id |-> service_id,
                                        amount |-> amount]) IN
    /\ IF id \notin Ids(expenses) THEN Fail(r, "not-found")
       ELSE LET row == [expenses[id] EXCEPT !.service_id = service_id, !.amount = amount] IN
            IF ExpenseValid(row, services, users)
            THEN /\ \E new \in Written(expenses[id], row, ExpenseTouch(row, clock)) :
                        expenses' = Put(expenses, id, new)
                 /\ req' = r
                 /\ result' = "ok"
                 /\ UNCHANGED <<services, revenues, users, clock>>
            ELSE Fail(r, "constraint-violation")
    /\ UNCHANGED <<cors_vars, settings_vars>>

DeleteExpense(id) ==
    LET r == Request("delete_expense", [id |-> id]) IN
    /\ IF id \notin Ids(expenses) THEN Fail(r, "not-found")
       ELSE /\ expenses' = Drop(expenses, id)
            /\ req' = r
            /\ result' = "ok"
            /\ UNCHANGED <<services, revenues, users, clock>>
    /\ UNCHANGED <<cors_vars, settings_vars>>

(***************************************************************************)
(* Inputs and specifications                                               *)
(***************************************************************************)
ServiceRefs == NULL..MaxId          \* NULL and every key services can hold
RowIds == 1..MaxId
UserRefs == NULL..MaxId
NewAmounts == {NULL, 100}      \* amount of a row being inserted
Amounts == {NULL, 250}         \* amount an update sets
Dates == {NULL, 1}

\* no operation is outstanding
Ready == req.op = "none"

\* the outcome of the operation goes back to its caller
Return ==
    /\ req.op # "none"
    /\ req' = NoReq
    /\ result' = "none"
    /\ UNCHANGED <<services, revenues, expenses, users, clock, cors_vars, settings_vars>>

RowCount ==
    Cardinality(Ids(services)) + Cardinality(Ids(revenues))
        + Cardinality(Ids(expenses)) + Cardinality(users)

\* room for one more row, with a key within the bound
Room(nextid) == RowCount < MaxTotal /\ nextid <= MaxId

InitCors ==
    /\ cors_result = <<>>
    /\ cors_pc = "ready"

InitSettings ==
    /\ env = [set |-> FALSE, val |-> <<>>]
    /\ cache = 0
    /\ objs = <<>>
    /\ pc = [t \in Callers |-> "idle"]
    /\ ret = [t \in Callers |-> 0]
    /\ began = [t \in Callers |-> 0]
    /\ built = [t \in Callers |-> FALSE]
    /\ first = 0

InitStore ==
    /\ services = << >>
    /\ revenues = << >>
    /\ expenses = << >>
    /\ users = {}
    /\ clock = 0
    /\ req = NoReq
    /\ result = "none"

\* an empty database, no settings loaded yet
Init ==
    /\ allowed_origins = DefaultAllowedOrigins
    /\ InitCors /\ InitSettings /\ InitStore

\* the store with the clock standing still, every field of an insert ranging
\* over present and missing values
Next ==
    \/ Ready /\ Room(NextUser) /\ InsertUser
    \/ Ready /\ Room(NextId(services)) /\ \E n \in Names \cup {NullStr} : InsertService(n)
    \/ Ready /\ \E i \in RowIds, n \in Names \cup {NullStr} : UpdateService(i, n)
    \/ Ready /\ \E i \in RowIds : DeleteService(i)
    \/ Ready /\ Room(NextId(revenues)) /\
          \E s \in ServiceRefs, a \in NewAmounts, d \in Dates, u \in UserRefs :
              InsertRevenue(s, a, d, u)
    \/ Ready /\ \E i \in RowIds, s \in ServiceRefs, a \in NewAmounts : UpdateRevenue(i, s, a)
    \/ Ready /\ \E i \in RowIds : DeleteRevenue(i)
    \/ Ready /\ Room(NextId(expenses)) /\
          \E s \in ServiceRefs, a \in NewAmounts, d \in Dates,
             c \in Categories \cup {NullStr}, u \in UserRefs : InsertExpense(s, a, d, c, u)
    \/ Ready /\ \E i \in RowIds, s \in ServiceRefs, a \in NewAmounts : UpdateExpense(i, s, a)
    \/ Ready /\ \E i \in RowIds : DeleteExpense(i)
    \/ Return

Spec == Init /\ [][Next]_vars

\* the store with time passing between operations: rows are inserted with
\* their required fields present and no creator, then updated; a Revenue or
\* Expense leaves the store only through its Service
NextTimed ==
    \/ Ready /\ clock < MaxClock /\ Tick
    \/ Ready /\ Room(NextId(services)) /\ \E n \in Names : InsertService(n)
    \/ Ready /\ \E i \in RowIds, n \in Names \cup {NullStr} : UpdateService(i, n)
    \/ Ready /\ \E i \in RowIds : DeleteService(i)
    \/ Ready /\ Room(NextId(revenues)) /\ \E s \in ServiceRefs : InsertRevenue(s, 100, 1, NULL)
    \/ Ready /\ \E i \in RowIds, s \in ServiceRefs, a \in Amounts : UpdateRevenue(i, s, a)
    \/ Ready /\ Room(NextId(expenses)) /\
          \E s \in ServiceRefs, c \in Categories : InsertExpense(s, 100, 1, c, NULL)
    \/ Ready /\ \E i \in RowIds, s \in ServiceRefs, a \in Amounts : UpdateExpense(i, s, a)
    \/ Return

SpecTimed == Init /\ [][NextTimed]_vars

\* cors_origins applied to every input string
InitOrigins ==
    /\ allowed_origins \in OriginInputs
    /\ InitCors /\ InitSettings /\ InitStore

NextCors == ReadCorsOrigins \/ SetAllowedOrigins

SpecCors == InitOrigins /\ [][NextCors]_vars

\* get_settings called by concurrent callers while the environment changes
NextSettings ==
    \/ \E t \in Callers : get_settings_lookup(t)
    \/ \E t \in Callers : get_settings_miss(t)
    \/ SetEnv

SpecSettings == Init /\ [][NextSettings]_vars

(***************************************************************************)
(* Properties                                                              *)
(***************************************************************************)
Min(S) == CHOOSE x \in S : \A y \in S : x <= y

InsertOps == {"insert_service", "insert_revenue", "insert_expense"}
UpdateOps == {"update_service", "update_revenue", "update_expense"}

TablesUnchanged == UNCHANGED <<services, revenues, expenses, users>>

\* C1: every stored Revenue has a non-null service_id that is the id of a
\* Service in the store, whatever inserts, updates and deletes came before
C1_RevenueReferencesService ==
    \A i \in Ids(revenues) :
        /\ revenues[i].service_id # NULL
        /\ revenues[i].service_id \in Ids(services)

\* a Service that a Revenue references was asked to be deleted
C1_Witness ==
    /\ req.op = "delete_service"
    /\ result = "constraint-violation"
    /\ \E i \in Ids(revenues) : revenues[i].service_id = req.id
    /\ req.id \in Ids(services)

C2_NoTwoWithSameName ==
    \A i, j \in Ids(services) : i # j => services[i].name # services[j].name

C2_InsertStep ==
    (req'.op = "insert_service" /\ req'.name \in Names) =>
        IF \E i \in Ids(services) : services[i].name = req'.name
        THEN result' = "constraint-violation" /\ services' = services
        ELSE /\ result' = "ok"
             /\ \E j \in Ids(services') \ Ids(services) :
                   /\ services'[j].name = req'.name
                   /\ \A i \in Ids(services) : services'[i] = services[i]

\* C2: inserting a Service under a name a stored Service holds fails with a
\* constraint-violation, inserting it under a name not in the store succeeds,
\* and no two stored Services ever have the same name
C2_ServiceNameUnique == [](C2_NoTwoWithSameName) /\ [][C2_InsertStep]_vars

C2_Witness ==
    /\ req.op = "insert_service"
    /\ result = "constraint-violation"
    /\ \E i \in Ids(services) : services[i].name = req.name

Kept(tbl, tbl2) ==
    \A i \in Ids(tbl) \cap Ids(tbl2) :
        /\ tbl2[i].created_at = tbl[i].created_at
        /\ tbl2[i].updated_at >= tbl[i].updated_at

C3_Step ==
    /\ Kept(services, services')
    /\ Kept(revenues, revenues')
    /\ Kept(expenses, expenses')

\* C3: while a Service, Revenue or Expense record is in the store, no step
\* (an update of it least of all) changes its created_at or lowers its
\* updated_at
C3_TimestampsKept == [][C3_Step]_vars

\* a Revenue updated after the clock moved on from its insertion
C3_Witness ==
    /\ req.op = "update_revenue"
    /\ result = "ok"
    /\ revenues[req.id].updated_at > revenues[req.id].created_at
    /\ revenues[req.id].amount = 250

\* C4: a call of get_settings that begins after a call has succeeded returns
\* the instance that first call returned and constructs no Settings, whatever
\* the environment has become
C4_SameCachedInstance ==
    \A t \in Callers :
        (pc[t] # "idle" /\ began[t] # 0) =>
            /\ pc[t] = "ret"
            /\ ret[t] = first
            /\ ret[t] = began[t]
            /\ ~built[t]

\* a later call answered from the cache although the environment now holds
\* a different, valid value
C4_Witness ==
    \E t \in Callers :
        /\ pc[t] = "ret"
        /\ began[t] # 0
        /\ ~SettingsRaises(env)
        /\ SettingsValue(env) # objs[ret[t]]

\* the places where allowed_origins is cut: before it, at each comma, after it
Cuts(s) == {0} \cup {i \in 1..Len(s) : s[i] = ","} \cup {Len(s) + 1}

KthCut(s, k) == CHOOSE c \in Cuts(s) : Cardinality({d \in Cuts(s) : d < c}) = k - 1

Piece(s, k) == SubSeq(s, KthCut(s, k) + 1, KthCut(s, k + 1) - 1)

Blank(p) == \A i \in 1..Len(p) : p[i] \in Whitespace

Trimmed(p) ==
    IF Blank(p) THEN <<>>
    ELSE LET solid == {i \in 1..Len(p) : p[i] \notin Whitespace}
         IN  SubSeq(p, Min(solid), Max(solid))

ExpectedDefaultOrigins ==
    << <<"h", "t", "t", "p", ":", "/", "/", "l", "o", "c", "a", "l", "h", "o", "s", "t",
         ":", "8", "0", "8", "0">>,
       <<"h", "t", "t", "p", ":", "/", "/", "l", "o", "c", "a", "l", "h", "o", "s", "t",
         ":", "5", "1", "7", "3">> >>

\* C5: cors_origins is the list of the pieces of allowed_origins between its
\* commas, left to right, each without its leading and trailing whitespace;
\* the default value gives the two localhost origins
C5_OrderedTrimmedEntries ==
    cors_pc = "done" =>
        /\ Len(cors_result) = Cardinality(Cuts(allowed_origins)) - 1
        /\ \A k \in 1..Len(cors_result) :
              cors_result[k] = Trimmed(Piece(allowed_origins, k))
        /\ allowed_origins = DefaultAllowedOrigins => cors_result = ExpectedDefaultOrigins

C5_Witness ==
    /\ cors_pc = "done"
    /\ allowed_origins = DefaultAllowedOrigins
    /\ cors_result = ExpectedDefaultOrigins

\* C6: every stored Expense with a non-null service_id references a Service
\* in the store, whatever inserts, updates and deletes came before
C6_ExpenseReferencesService ==
    \A i \in Ids(expenses) :
        expenses[i].service_id # NULL => expenses[i].service_id \in Ids(services)

\* a Service was deleted and the Expense that referenced it, never updated
\* since its insertion, was written then: it is left without a Service
C6_Witness ==
    /\ req.op = "delete_service"
    /\ result = "ok"
    /\ req.id \notin Ids(services)
    /\ \E i \in Ids(expenses) :
          /\ expenses[i].service_id = NULL
          /\ expenses[i].amount = 100
          /\ expenses[i].updated_at = clock
          /\ expenses[i].created_at < clock

Dangling(ref, ids) == ref # NULL /\ ref \notin ids

InsertViolates(r) ==
    CASE r.op = "insert_service" ->
            \/ r.name = NullStr
            \/ \E i \in Ids(services) : services[i].name = r.name
      [] r.op = "insert_revenue" ->
            \/ r.amount = NULL \/ r.date = NULL \/ r.service_id = NULL
            \/ Dangling(r.service_id, Ids(services))
            \/ Dangling(r.created_by, users)
      [] r.op = "insert_expense" ->
            \/ r.amount = NULL \/ r.date = NULL \/ r.category = NullStr
            \/ Dangling(r.service_id, Ids(services))
            \/ Dangling(r.created_by, users)
      [] OTHER -> FALSE

C7_Step ==
    (req'.op \in InsertOps /\ InsertViolates(req')) =>
        /\ result' = "constraint-violation"
        /\ TablesUnchanged

\* C7: an insert with a required field missing, a Service name in use, or a
\* service_id / created_by naming no Service / User fails with a
\* constraint-violation and leaves the stored records as they were
C7_ViolatingInsertRejected == [][C7_Step]_vars

\* a Revenue without an amount was offered for a Service that exists
C7_Witness ==
    /\ req.op = "insert_revenue"
    /\ req.amount = NULL
    /\ req.date # NULL
    /\ req.service_id \in Ids(services)
    /\ req.created_by = NULL
    /\ result = "constraint-violation"

\* C8: an Expense with no Service and its other fields valid is inserted,
\* a Revenue with no Service is rejected with a constraint-violation
C8_ServiceOptionalForExpenseOnly ==
    /\ ( /\ req.op = "insert_expense"
         /\ req.service_id = NULL
         /\ req.amount # NULL /\ req.date # NULL /\ req.category # NullStr
         /\ ~Dangling(req.created_by, users) )
       => /\ result = "ok"
          /\ expenses # << >>
          /\ expenses[Max(Ids(expenses))].service_id = NULL
          /\ expenses[Max(Ids(expenses))].amount = req.amount
    /\ (req.op = "insert_revenue" /\ req.service_id = NULL)
       => /\ result = "constraint-violation"
          /\ \A i \in Ids(revenues) : revenues[i].service_id # NULL

C8_Witness ==
    /\ req.op = "insert_expense"
    /\ req.service_id = NULL
    /\ result = "ok"
    /\ services # << >>

UpdateTarget(r) ==
    CASE r.op = "update_service" -> services
      [] r.op = "update_revenue" -> revenues
      [] r.op = "update_expense" -> expenses

UpdateViolates(r) ==
    CASE r.op = "update_service" ->
            \/ r.name = NullStr
            \/ \E i \in Ids(services) \ {r.id} : services[i].name = r.name
      [] r.op = "update_revenue" ->
            \/ r.amount = NULL \/ r.service_id = NULL
            \/ Dangling(r.service_id, Ids(services))
      [] r.op = "update_expense" ->
            \/ r.amount = NULL
            \/ Dangling(r.service_id, Ids(services))

C9_Step ==
    req'.op \in UpdateOps =>
        /\ req'.id \notin Ids(UpdateTarget(req')) => result' = "not-found"
        /\ (req'.id \in Ids(UpdateTarget(req')) /\ UpdateViolates(req'))
              => result' = "constraint-violation"
        /\ result' # "ok" =>
              /\ TablesUnchanged
              /\ clock' = clock

\* C9: an update of an id not in the store, or to values that break a
\* constraint, fails, and a failed update changes no stored record, its
\* updated_at included
C9_FailedUpdateChangesNothing == [][C9_Step]_vars

\* a Service was to be renamed to the name of another, later than its last write
C9_Witness ==
    /\ req.op = "update_service"
    /\ result = "constraint-violation"
    /\ req.id \in Ids(services)
    /\ \E j \in Ids(services) \ {req.id} : services[j].name = req.name
    /\ services[req.id].updated_at < clock

\* C10: cors_origins has one entry more than allowed_origins has commas; a
\* piece that is empty or all whitespace is kept, as the empty string
C10_OneEntryPerPiece ==
    cors_pc = "done" =>
        /\ Len(cors_result) = Cardinality({i \in 1..Len(allowed_origins) :
                                              allowed_origins[i] = ","}) + 1
        /\ \A k \in 1..(Cardinality(Cuts(allowed_origins)) - 1) :
              Blank(Piece(allowed_origins, k)) =>
                  (k <= Len(cors_result) /\ cors_result[k] = <<>>)

C10_Witness ==
    /\ cors_pc = "done"
    /\ allowed_origins = <<",", " ", ",">>
    /\ cors_result = << <<>>, <<>>, <<>> >>

====
